---- MODULE Spec2Model ----
(***************************************************************************)
(* A model of certbot_nginx/nginxparser.py: the pyparsing grammar          *)
(* (RawNginxParser), the dumper (RawNginxDumper), and the dual-view list   *)
(* (UnspacedList) with its mutation operations, on an explicit heap of     *)
(* Python list objects so that aliasing between trees is observable.       *)
(***************************************************************************)
EXTENDS Integers, Sequences, FiniteSets, TLC

(***************************************************************************)
(* Python values.  A str is a sequence of one-character strings; a list is *)
(* either a nested value (the parser's asList() result, a list literal of  *)
(* the caller) or a reference to a list object of the heap.                *)
(***************************************************************************)
Str(cs) == [s |-> cs]
None == [none |-> TRUE]
Num(n) == [int |-> n]
Lst(xs) == [l |-> xs]
Ref(a) == [r |-> a]

IsStr(v) == DOMAIN v = {"s"}
IsNone(v) == DOMAIN v = {"none"}
IsNum(v) == DOMAIN v = {"int"}
IsLst(v) == DOMAIN v = {"l"}
IsRef(v) == DOMAIN v = {"r"}

Min(S) == CHOOSE x \in S : \A y \in S : x <= y
Max(S) == CHOOSE x \in S : \A y \in S : x >= y

\* A Python assignment x = e evaluates e once and binds the value to x:
\* With([x \in {e} |-> body]) is body with x bound to the value of e
Only(S) == CHOOSE r \in S : TRUE
With(fn) == Only({g[Only(DOMAIN g)] : g \in {fn}})

\* pyparsing's White(): " \t\r\n"
WhiteChars == {" ", "\t", "\r", "\n"}
\* str.isspace() and string.whitespace
SpaceChars == {" ", "\t", "\r", "\n", "\f"}
\* alphanums + "_/+-."
KeyChars ==
    {"a","b","c","d","e","f","g","h","i","j","k","l","m","n","o","p","q","r",
     "s","t","u","v","w","x","y","z","A","B","C","D","E","F","G","H","I","J",
     "K","L","M","N","O","P","Q","R","S","T","U","V","W","X","Y","Z","0","1",
     "2","3","4","5","6","7","8","9","_","/","+","-","."}
\* the characters the value regex and location exclude
SpecialChars == {"{", "}", ";", ","}

\* spacey = lambda x: (isinstance(x, str) and x.isspace()) or x == ''
spacey(x) ==
    IsStr(x) /\ \A j \in 1..Len(x.s) : x.s[j] \in SpaceChars

(***************************************************************************)
(* RawNginxParser: the grammar, element by element.  Every element maps a  *)
(* text and a position to [ok, loc, toks]; lw says whether the element is  *)
(* a copy made by leaveWhitespace() (no whitespace skipped before it).  A  *)
(* sequence (pyparsing's And) matches its parts in order and fails at the  *)
(* first part that fails.                                                  *)
(***************************************************************************)
Ok(loc, toks) == [ok |-> TRUE, loc |-> loc, toks |-> toks]
Fail == [ok |-> FALSE, loc |-> 0, toks |-> <<>>]

\* the end of the maximal run of characters of cs starting at loc
RunIn(src, loc, cs) ==
    With([stop \in {{p \in loc..Len(src) : src[p] \notin cs}} |->
        IF stop = {} THEN Len(src) + 1 ELSE Min(stop)])

RunNotIn(src, loc, cs) ==
    With([stop \in {{p \in loc..Len(src) : src[p] \in cs}} |->
        IF stop = {} THEN Len(src) + 1 ELSE Min(stop)])

\* ParserElement.preParse: skip whitespace unless leaveWhitespace() was applied
preParse(src, loc, lw) == IF lw THEN loc ELSE RunIn(src, loc, WhiteChars)

Literal(src, loc, lit, lw) ==
    With([p \in {preParse(src, loc, lw)} |->
        IF p + Len(lit) - 1 <= Len(src) /\ SubSeq(src, p, p + Len(lit) - 1) = lit
        THEN Ok(p + Len(lit), <<Str(lit)>>) ELSE Fail])

\* space = Optional(White())
space(src, loc) ==
    With([e \in {RunIn(src, loc, WhiteChars)} |->
        IF e > loc THEN Ok(e, <<Str(SubSeq(src, loc, e - 1))>>) ELSE Ok(loc, <<>>)])

\* key = Word(alphanums + "_/+-.")
key(src, loc, lw) ==
    With([p \in {preParse(src, loc, lw)} |->
    With([e \in {RunIn(src, p, KeyChars)} |->
        IF e > p THEN Ok(e, <<Str(SubSeq(src, p, e - 1))>>) ELSE Fail])])

\* the position after a quoted span  q .* q  starting at p (greedy: the last
\* closing quote of the line), or p when there is none
QuotedEnd(src, p, q) ==
    IF p <= Len(src) /\ src[p] = q
    THEN With([eol \in {RunNotIn(src, p + 1, {"\n"})} |->
         With([cl \in {{j \in (p + 1)..(eol - 1) : src[j] = q}} |->
             IF cl = {} THEN p ELSE Max(cl) + 1])])
    ELSE p

\* value = Regex(r"((\".*\")?(\'.*\')?[^\{\};,]?)+"): one pass of the group per call
RECURSIVE valueEnd(_, _)
valueEnd(src, p) ==
    With([p1 \in {QuotedEnd(src, p, "\"")} |->
    With([p2 \in {QuotedEnd(src, p1, "'")} |->
    With([p3 \in {IF p2 <= Len(src) /\ src[p2] \notin SpecialChars
                  THEN p2 + 1 ELSE p2} |->
        IF p3 = p THEN p ELSE valueEnd(src, p3)])])])

value(src, loc, lw) ==
    With([p \in {preParse(src, loc, lw)} |->
    With([e \in {valueEnd(src, p)} |->
        Ok(e, <<Str(SubSeq(src, p, e - 1))>>)])])

\* location = CharsNotIn("{};," + string.whitespace)
location(src, loc) ==
    With([e \in {RunNotIn(src, loc, SpecialChars \cup SpaceChars)} |->
        IF e > loc THEN Ok(e, <<Str(SubSeq(src, loc, e - 1))>>) ELSE Fail])

\* modifier = Literal("=") | Literal("~*") | Literal("~") | Literal("^~")
modifier(src, loc) ==
    With([m1 \in {Literal(src, loc, <<"=">>, TRUE)} |->
        IF m1.ok THEN m1 ELSE
    With([m2 \in {Literal(src, loc, <<"~", "*">>, TRUE)} |->
        IF m2.ok THEN m2 ELSE
    With([m3 \in {Literal(src, loc, <<"~">>, TRUE)} |->
        IF m3.ok THEN m3 ELSE Literal(src, loc, <<"^", "~">>, TRUE)])])])

\* comment = space + Literal('#') + restOfLine()
comment(src, loc, lw) ==
    With([sp \in {space(src, loc)} |->
    With([h \in {Literal(src, sp.loc, <<"#">>, lw)} |->
        IF ~h.ok THEN Fail ELSE
    With([e \in {RunNotIn(src, h.loc, {"\n"})} |->
        Ok(e, sp.toks \o h.toks \o <<Str(SubSeq(src, h.loc, e - 1))>>)])])])

\* semicolon = Literal(";").suppress()
semicolon(src, loc, lw) ==
    With([r \in {Literal(src, loc, <<";">>, lw)} |->
        IF r.ok THEN Ok(r.loc, <<>>) ELSE Fail])

\* assignment = space + key + Optional(space + value, default=None) + semicolon
assignment(src, loc, lw) ==
    With([sp \in {space(src, loc)} |->
    With([k \in {key(src, sp.loc, lw)} |->
        IF ~k.ok THEN Fail ELSE
    With([g \in {space(src, k.loc)} |->
    With([v \in {value(src, g.loc, lw)} |->
    With([opt \in {IF g.ok /\ v.ok THEN Ok(v.loc, g.toks \o v.toks)
                   ELSE Ok(k.loc, <<None>>)} |->
    With([sc \in {semicolon(src, opt.loc, lw)} |->
        IF sc.ok THEN Ok(sc.loc, sp.toks \o k.toks \o opt.toks) ELSE Fail])])])])])])

\* location_statement = space + Optional(modifier) + Optional(space + location + space)
location_statement(src, loc) ==
    With([sp \in {space(src, loc)} |->
    With([m \in {modifier(src, sp.loc)} |->
    With([am \in {IF m.ok THEN m ELSE Ok(sp.loc, <<>>)} |->
    With([s1 \in {space(src, am.loc)} |->
    With([lc \in {location(src, s1.loc)} |->
        IF ~lc.ok THEN Ok(am.loc, sp.toks \o am.toks) ELSE
    With([s2 \in {space(src, lc.loc)} |->
        Ok(s2.loc, sp.toks \o am.toks \o s1.toks \o lc.toks \o s2.toks)])])])])])])

\* Group(space + key + location_statement)
generic_header(src, loc) ==
    With([sp \in {space(src, loc)} |->
    With([k \in {key(src, sp.loc, TRUE)} |->
        IF ~k.ok THEN Fail ELSE
    With([ls \in {location_statement(src, k.loc)} |->
        IF ls.ok THEN Ok(ls.loc, <<Lst(sp.toks \o k.toks \o ls.toks)>>) ELSE Fail])])])

\* if_statement = space + Literal("if") + space + Regex(r"\(.+\)") + space
if_statement(src, loc) ==
    With([sp \in {space(src, loc)} |->
    With([kw \in {Literal(src, sp.loc, <<"i", "f">>, TRUE)} |->
        IF ~kw.ok THEN Fail ELSE
    With([s1 \in {space(src, kw.loc)} |->
    With([eol \in {RunNotIn(src, s1.loc + 1, {"\n"})} |->
    With([cl \in {{j \in (s1.loc + 2)..(eol - 1) : src[j] = ")"}} |->
        IF ~(s1.loc <= Len(src) /\ src[s1.loc] = "(" /\ cl # {}) THEN Fail ELSE
    With([s2 \in {space(src, Max(cl) + 1)} |->
        Ok(s2.loc, <<Lst(sp.toks \o kw.toks \o s1.toks
                          \o <<Str(SubSeq(src, s1.loc, Max(cl)))>> \o s2.toks)>>)
    ])])])])])])

\* map_statement = space + Literal("map") + space + Regex(r"\S+") + space
\*                 + Regex(r"\$\S+") + space
map_statement(src, loc) ==
    With([sp \in {space(src, loc)} |->
    With([kw \in {Literal(src, sp.loc, <<"m", "a", "p">>, TRUE)} |->
        IF ~kw.ok THEN Fail ELSE
    With([s1 \in {space(src, kw.loc)} |->
    With([e1 \in {RunNotIn(src, s1.loc, SpaceChars)} |->
        IF ~(e1 > s1.loc) THEN Fail ELSE
    With([s2 \in {space(src, e1)} |->
    With([e2 \in {RunNotIn(src, s2.loc + 1, SpaceChars)} |->
        IF ~(s2.loc <= Len(src) /\ src[s2.loc] = "$" /\ e2 > s2.loc + 1) THEN Fail ELSE
    With([s3 \in {space(src, e2)} |->
        Ok(s3.loc, <<Lst(sp.toks \o kw.toks \o s1.toks
                          \o <<Str(SubSeq(src, s1.loc, e1 - 1))>> \o s2.toks
                          \o <<Str(SubSeq(src, s2.loc, e2 - 1))>> \o s3.toks)>>)
    ])])])])])])])

\* (Group(space + key + location_statement) ^ Group(if_statement) ^
\*  Group(map_statement)).leaveWhitespace(): Or keeps the longest match, the
\* first of the longest on a tie
block_header(src, loc) ==
    With([g \in {generic_header(src, loc)} |->
    With([i \in {if_statement(src, loc)} |->
    With([m \in {map_statement(src, loc)} |->
    With([best \in {Max({g.loc, i.loc, m.loc})} |->
        IF ~(g.ok \/ i.ok \/ m.ok) THEN Fail
        ELSE IF g.ok /\ g.loc = best THEN g
        ELSE IF i.ok /\ i.loc = best THEN i
        ELSE m])])])])

\* left_bracket = Literal("{").suppress()
left_bracket(src, loc) ==
    With([r \in {Literal(src, loc, <<"{">>, FALSE)} |->
        IF r.ok THEN Ok(r.loc, <<>>) ELSE Fail])

\* right_bracket = space.leaveWhitespace() + Literal("}").suppress()
right_bracket(src, loc) ==
    With([sp \in {space(src, loc)} |->
    With([r \in {Literal(src, sp.loc, <<"}">>, FALSE)} |->
        IF r.ok THEN Ok(r.loc, sp.toks) ELSE Fail])])

\* Group(comment | assignment)
statement(src, loc, lw) ==
    With([cm \in {comment(src, loc, lw)} |->
        IF cm.ok THEN Ok(cm.loc, <<Lst(cm.toks)>>) ELSE
    With([asg \in {assignment(src, loc, lw)} |->
        IF asg.ok THEN Ok(asg.loc, <<Lst(asg.toks)>>) ELSE Fail])])

RECURSIVE block(_, _)
RECURSIVE block_body(_, _, _)

\* ZeroOrMore(Group(comment | assignment) | block), then + space
block_body(src, loc, acc) ==
    With([st \in {statement(src, loc, TRUE)} |->
    With([bl \in {IF st.ok THEN st ELSE block(src, loc)} |->
        IF bl.ok THEN block_body(src, bl.loc, acc \o bl.toks) ELSE
    With([sp \in {space(src, loc)} |->
        Ok(sp.loc, <<Lst(acc \o sp.toks)>>)])])])

\* block << Group(header + left_bracket + Group(body).leaveWhitespace() + right_bracket)
block(src, loc) ==
    With([h \in {block_header(src, loc)} |->
        IF ~h.ok THEN Fail ELSE
    With([lb \in {left_bracket(src, h.loc)} |->
        IF ~lb.ok THEN Fail ELSE
    With([bd \in {block_body(src, lb.loc, <<>>)} |->
        IF ~bd.ok THEN Fail ELSE
    With([rb \in {right_bracket(src, bd.loc)} |->
        IF rb.ok THEN Ok(rb.loc, <<Lst(h.toks \o bd.toks \o rb.toks)>>) ELSE Fail
    ])])])])

\* Group(comment | assignment) ^ block
script_item(src, loc) ==
    With([st \in {statement(src, loc, FALSE)} |->
    With([bl \in {block(src, loc)} |->
        IF st.ok /\ (~bl.ok \/ st.loc >= bl.loc) THEN st ELSE bl])])

\* script = OneOrMore(Group(comment | assignment) ^ block) + space + stringEnd
RECURSIVE script_items(_, _, _)
script_items(src, loc, acc) ==
    With([it \in {script_item(src, loc)} |->
        IF it.ok THEN script_items(src, it.loc, acc \o it.toks)
        ELSE IF acc = <<>> THEN Fail ELSE
    With([sp \in {space(src, loc)} |->
        IF sp.loc > Len(src) THEN Ok(sp.loc, acc \o sp.toks) ELSE Fail])])

\* RawNginxParser(source).as_list(): the parsed tree, or a ParseException
as_list(src) == script_items(src, 1, <<>>)


(***************************************************************************)
(* The heap: Python list objects, addressed by their index.  An object is  *)
(* a plain list or an UnspacedList (a list with the attribute spaced, the  *)
(* address of a plain list).                                               *)
(***************************************************************************)
NewList(items) == [cls |-> "list", items |-> items, spaced |-> 0]
NewUnspacedList(items, sp) == [cls |-> "UnspacedList", items |-> items, spaced |-> sp]
Alloc(h, obj) == [h |-> Append(h, obj), a |-> Len(h) + 1]

\* hasattr(inbound, "spaced")
hasattr_spaced(h, v) == IsRef(v) /\ h[v.r].cls = "UnspacedList"

\* a list literal or a parsed tree (asList()) becomes plain list objects
RECURSIVE Build(_, _)
RECURSIVE BuildItems(_, _, _)
BuildItems(h, xs, acc) ==
    IF xs = <<>> THEN [h |-> h, items |-> acc] ELSE
    With([bv \in {Build(h, Head(xs))} |->
        BuildItems(bv.h, Tail(xs), Append(acc, bv.v))])

Build(h, v) ==
    IF ~IsLst(v) THEN [h |-> h, v |-> v] ELSE
    With([bi \in {BuildItems(h, v.l, <<>>)} |->
    With([al \in {Alloc(bi.h, NewList(bi.items))} |->
        [h |-> al.h, v |-> Ref(al.a)]])])

\* the nested value a heap value stands for (what == and printing show)
RECURSIVE Deref(_, _)
Deref(h, v) ==
    IF IsRef(v)
    THEN Lst([j \in 1..Len(h[v.r].items) |-> Deref(h, h[v.r].items[j])])
    ELSE v

\* Python's list.insert, list.__setitem__ and list.__delitem__ on index i
PyInsert(xs, i, v) ==
    With([k \in {IF i < 0 THEN (IF i + Len(xs) < 0 THEN 0 ELSE i + Len(xs))
                 ELSE (IF i > Len(xs) THEN Len(xs) ELSE i)} |->
        SubSeq(xs, 1, k) \o <<v>> \o SubSeq(xs, k + 1, Len(xs))])

PyIndex(xs, i) == IF i < 0 THEN i + Len(xs) ELSE i
PyInRange(xs, i) == PyIndex(xs, i) >= 0 /\ PyIndex(xs, i) < Len(xs)
PySet(xs, i, v) == [xs EXCEPT ![PyIndex(xs, i) + 1] = v]
PyDel(xs, i) ==
    SubSeq(xs, 1, PyIndex(xs, i)) \o SubSeq(xs, PyIndex(xs, i) + 2, Len(xs))

(***************************************************************************)
(* copy.deepcopy and UnspacedList.__init__ / __deepcopy__                  *)
(***************************************************************************)
RECURSIVE deepcopy(_, _, _)
RECURSIVE deepcopy_items(_, _, _, _)
RECURSIVE UnspacedList(_, _, _)
RECURSIVE init_loop(_, _, _, _, _)

deepcopy_items(h, memo, xs, acc) ==
    IF xs = <<>> THEN [h |-> h, memo |-> memo, items |-> acc] ELSE
    With([cp \in {deepcopy(h, memo, Head(xs))} |->
        deepcopy_items(cp.h, cp.memo, Tail(xs), Append(acc, cp.v))])

\* the whitespace UnspacedList.__init__ adds to a new directive when spaceout
spaceout_items(xs) ==
    <<Str(<<"\n">>)>> \o
    [j \in 1..(IF xs = <<>> THEN 0 ELSE 2 * Len(xs) - 1) |->
        IF j % 2 = 1 THEN xs[(j + 1) \div 2] ELSE Str(<<" ">>)]

\* __init__'s loop over reversed(list(enumerate(self))), at 1-based index i
init_loop(h, sp, cur, i, spaceout) ==
    IF i = 0 THEN [h |-> h, items |-> cur]
    ELSE IF IsRef(cur[i])
    THEN With([sub \in {UnspacedList(h, h[cur[i].r].items, spaceout)} |->
         With([h2 \in {[sub.h EXCEPT ![sp].items[i] = Ref(sub.h[sub.a].spaced)]} |->
             IF sub.h[sub.a].items # <<>> \/ sub.h[sub.h[sub.a].spaced].items = <<>>
             THEN init_loop(h2, sp, [cur EXCEPT ![i] = Ref(sub.a)], i - 1, spaceout)
             ELSE init_loop(h2, sp, PyDel(cur, i - 1), i - 1, spaceout)])])
    ELSE IF spacey(cur[i])
            /\ ~\E j \in 1..(i - 1) : IsStr(cur[j]) /\ cur[j].s = <<"#">>
    THEN init_loop(h, sp, PyDel(cur, i - 1), i - 1, spaceout)
    ELSE init_loop(h, sp, cur, i - 1, spaceout)

\* UnspacedList(list_source, spaceout), list_source given by its items
UnspacedList(h, source, spaceout) ==
    With([cp \in {deepcopy_items(h, <<>>, source, <<>>)} |->
    With([al \in {Alloc(cp.h, NewList(
                     IF spaceout /\ \A j \in 1..Len(cp.items) : IsStr(cp.items[j])
                     THEN spaceout_items(cp.items) ELSE cp.items))} |->
    With([lp \in {init_loop(al.h, al.a, source, Len(source), spaceout)} |->
        Alloc(lp.h, NewUnspacedList(lp.items, al.a))])])])

\* UnspacedList.__deepcopy__(self, unused_memo)
deepcopy_UnspacedList(h, self) ==
    With([l \in {UnspacedList(h, h[self].items, FALSE)} |->
    With([s \in {deepcopy(l.h, <<>>, Ref(h[self].spaced))} |->
        [h |-> [s.h EXCEPT ![l.a].spaced = s.v.r], a |-> l.a]])])

\* copy.deepcopy(v, memo)
deepcopy(h, memo, v) ==
    IF ~IsRef(v) THEN [h |-> h, memo |-> memo, v |-> v]
    ELSE IF v.r \in DOMAIN memo THEN [h |-> h, memo |-> memo, v |-> Ref(memo[v.r])]
    ELSE IF h[v.r].cls = "list"
    THEN With([cp \in {deepcopy_items(h, memo, h[v.r].items, <<>>)} |->
         With([al \in {Alloc(cp.h, NewList(cp.items))} |->
             [h |-> al.h, memo |-> (v.r :> al.a) @@ cp.memo, v |-> Ref(al.a)]])])
    ELSE With([d \in {deepcopy_UnspacedList(h, v.r)} |->
             [h |-> d.h, memo |-> (v.r :> d.a) @@ memo, v |-> Ref(d.a)]])

\* loads(source), for a source that parses
loads(h, src) ==
    With([tree \in {as_list(src)} |->
    With([raw \in {BuildItems(h, tree.toks, <<>>)} |->
        UnspacedList(raw.h, raw.items, FALSE)])])


(***************************************************************************)
(* UnspacedList's operations.  Each maps a heap to [h, err]: the heap as   *)
(* the call leaves it, and "ok" or the exception it raised.                *)
(***************************************************************************)
Done(h) == [h |-> h, err |-> "ok"]
Raise(h, e) == [h |-> h, err |-> e]

\* _spaces_before(self, idx): the loop, on the items of self.spaced
RECURSIVE spaces_loop(_, _, _, _)
spaces_loop(sp, idx, pos, spaces) ==
    IF idx = -1 THEN [err |-> "ok", n |-> spaces]
    ELSE IF pos >= Len(sp) THEN [err |-> "IndexError", n |-> 0]
    ELSE IF spacey(sp[pos + 1]) THEN spaces_loop(sp, idx, pos + 1, spaces + 1)
    ELSE spaces_loop(sp, idx - 1, pos + 1, spaces)

_spaces_before(h, self, idx) == spaces_loop(h[h[self].spaced].items, idx, 0, 0)

\* _coerce(self, inbound, spaceout): (item, spaced_item)
_coerce(h, inbound, spaceout) ==
    IF ~IsRef(inbound)
    THEN [h |-> h, item |-> inbound, spaced_item |-> inbound]
    ELSE IF ~hasattr_spaced(h, inbound)
    THEN With([u \in {UnspacedList(h, h[inbound.r].items, spaceout)} |->
             [h |-> u.h, item |-> Ref(u.a), spaced_item |-> Ref(u.h[u.a].spaced)]])
    ELSE [h |-> h, item |-> inbound, spaced_item |-> Ref(h[inbound.r].spaced)]

insert(h, self, i, x, spaceout) ==
    With([co \in {_coerce(h, x, spaceout)} |->
    With([sb \in {_spaces_before(co.h, self, i)} |->
        IF sb.err # "ok" THEN Raise(co.h, sb.err) ELSE
    With([h1 \in {[co.h EXCEPT ![co.h[self].spaced].items =
                                  PyInsert(@, i + sb.n, co.spaced_item)]} |->
        Done([h1 EXCEPT ![self].items = PyInsert(@, i, co.item)])])])])

append(h, self, x, spaceout) ==
    With([co \in {_coerce(h, x, spaceout)} |->
    With([h1 \in {[co.h EXCEPT ![co.h[self].spaced].items =
                                  Append(@, co.spaced_item)]} |->
        Done([h1 EXCEPT ![self].items = Append(@, co.item)])])])

\* the elements list.extend takes from an iterable: those of a list, the
\* characters of a str; None and numbers are not iterable
Iterable(v) == IsRef(v) \/ IsStr(v)
Elements(h, v) ==
    IF IsRef(v) THEN h[v.r].items ELSE [j \in 1..Len(v.s) |-> Str(<<v.s[j]>>)]

extend(h, self, x, spaceout) ==
    With([co \in {_coerce(h, x, spaceout)} |->
        IF ~Iterable(co.spaced_item) THEN Raise(co.h, "TypeError") ELSE
    With([h1 \in {[co.h EXCEPT ![co.h[self].spaced].items =
                                  @ \o Elements(co.h, co.spaced_item)]} |->
        Done([h1 EXCEPT ![self].items = @ \o Elements(co.h, co.item)])])])

__setitem__(h, self, i, val) ==
    With([co \in {_coerce(h, val, FALSE)} |->
    With([sb \in {_spaces_before(co.h, self, i)} |->
        IF sb.err # "ok" THEN Raise(co.h, sb.err)
        ELSE IF ~PyInRange(co.h[co.h[self].spaced].items, i + sb.n)
        THEN Raise(co.h, "IndexError") ELSE
    With([h1 \in {[co.h EXCEPT ![co.h[self].spaced].items =
                                  PySet(@, i + sb.n, co.spaced_item)]} |->
        IF ~PyInRange(h1[self].items, i) THEN Raise(h1, "IndexError")
        ELSE Done([h1 EXCEPT ![self].items = PySet(@, i, co.item)])])])])

__delitem__(h, self, i) ==
    With([sb \in {_spaces_before(h, self, i)} |->
        IF sb.err # "ok" THEN Raise(h, sb.err)
        ELSE IF ~PyInRange(h[h[self].spaced].items, i + sb.n)
        THEN Raise(h, "IndexError") ELSE
    With([h1 \in {[h EXCEPT ![h[self].spaced].items = PyDel(@, i + sb.n)]} |->
        IF ~PyInRange(h1[self].items, i) THEN Raise(h1, "IndexError")
        ELSE Done([h1 EXCEPT ![self].items = PyDel(@, i)])])])

\* __add__(self, other): [h, err, a], a the new list
__add__(h, self, other) ==
    With([l \in {deepcopy(h, <<>>, Ref(self))} |->
    With([e \in {extend(l.h, l.v.r, other, FALSE)} |->
        [h |-> e.h, err |-> e.err, a |-> l.v.r]])])

(***************************************************************************)
(* RawNginxDumper.  [h, err, out]: the dumper pops from b, which is an     *)
(* object of the heap, so what it pops from is visible in h.               *)
(***************************************************************************)
DOk(h, out) == [h |-> h, err |-> "ok", out |-> out]
DErr(h, e) == [h |-> h, err |-> e, out |-> <<>>]

\* str.strip()
strip(cs) ==
    With([ns \in {{j \in 1..Len(cs) : cs[j] \notin SpaceChars}} |->
        IF ns = {} THEN <<>> ELSE SubSeq(cs, Min(ns), Max(ns))])

\* "".join(key)
RECURSIVE join(_)
join(xs) == IF xs = <<>> THEN <<>> ELSE Head(xs).s \o join(Tail(xs))

\* the dumper without its copy: b is b0 itself
DumperAlias(h, b0) == [h |-> h, memo |-> <<>>, v |-> b0]

\* b = copy.deepcopy(b0)
DumperCopy(h, b0) == deepcopy(h, <<>>, b0)

RECURSIVE dump_blocks(_, _, _)
RECURSIVE dump_one(_, _)

\* the directive branch: the gap is rotated out of values, then the line is
\* yielded; h, b and rest are the heap, the list b and its items after the pops
dump_directive(h, b, indentation, k0, values, rest) ==
    IF IsStr(values) /\ values.s # <<>> /\ spacey(values)
    THEN IF rest = <<>> THEN DErr(h, "IndexError") ELSE
         With([h3 \in {[h EXCEPT ![b].items = Tail(rest)]} |->
             IF IsStr(k0) /\ IsStr(rest[1])
             THEN DOk(h3, indentation \o k0.s \o values.s \o rest[1].s \o <<";">>)
             ELSE DErr(h3, "TypeError")])
    ELSE IF IsStr(k0) /\ IsStr(values)
    THEN DOk(h, indentation \o k0.s \o values.s \o <<";">>)
    ELSE DErr(h, "TypeError")

\* the block branch: the header, "{", the dumped body, "}"
dump_block(h, indentation, k0, values) ==
    IF \E j \in 1..Len(h[k0.r].items) : ~IsStr(h[k0.r].items[j])
    THEN DErr(h, "TypeError")
    ELSE IF ~Iterable(values) THEN DErr(h, "TypeError") ELSE
    With([r \in {dump_blocks(h, Elements(h, values), <<>>)} |->
        IF r.err # "ok" THEN r
        ELSE DOk(r.h, indentation \o join(h[k0.r].items) \o <<"{">>
                      \o r.out \o <<"}">>)])

\* what follows the pops of key and values; rest are the items left in b
dump_item(h, b, indentation, k0, values, rest) ==
    IF IsRef(k0) THEN dump_block(h, indentation, k0, values)
    ELSE IF IsStr(k0) /\ strip(k0.s) = <<"#">>
    THEN IF IsStr(values) THEN DOk(h, indentation \o k0.s \o values.s)
         ELSE DErr(h, "TypeError")
    ELSE dump_directive(h, b, indentation, k0, values, rest)

\* the body of the loop "for b0 in blocks"
dump_one(h, b0) ==
    IF IsStr(b0) THEN DOk(h, b0.s) ELSE
    With([cp \in {DumperCopy(h, b0)} |->
        IF ~IsRef(cp.v) THEN DErr(cp.h, "TypeError")
        ELSE IF cp.h[cp.v.r].items = <<>> THEN DErr(cp.h, "IndexError") ELSE
    With([ind \in {spacey(cp.h[cp.v.r].items[1])} |->
    With([it1 \in {IF ind THEN Tail(cp.h[cp.v.r].items) ELSE cp.h[cp.v.r].items} |->
    With([indentation \in {IF ind THEN cp.h[cp.v.r].items[1].s ELSE <<>>} |->
        IF ind /\ it1 = <<>>
        THEN DOk([cp.h EXCEPT ![cp.v.r].items = it1], indentation)
        ELSE IF Len(it1) < 2
        THEN DErr([cp.h EXCEPT ![cp.v.r].items = <<>>], "IndexError") ELSE
    With([h2 \in {[cp.h EXCEPT ![cp.v.r].items = Tail(Tail(it1))]} |->
        dump_item(h2, cp.v.r, indentation, it1[1], it1[2], Tail(Tail(it1)))
    ])])])])])

\* RawNginxDumper.__iter__(blocks), joined
dump_blocks(h, blocks, acc) ==
    IF blocks = <<>> THEN DOk(h, acc) ELSE
    With([r \in {dump_one(h, Head(blocks))} |->
        IF r.err # "ok" THEN r
        ELSE dump_blocks(r.h, Tail(blocks), acc \o r.out)])

\* dumps(blocks) = str(RawNginxDumper(blocks.spaced))
dumps(h, blocks) == dump_blocks(h, h[h[blocks].spaced].items, <<>>)


(***************************************************************************)
(* The program: a caller that parses a text (loads), constructs a second   *)
(* list (UnspacedList(...)), edits the trees through any of their nodes,   *)
(* copies and concatenates them, and dumps them.                           *)
(***************************************************************************)
VARIABLES
    src,    \* the text given to loads
    heap,   \* the list objects
    a,      \* the tree loads returned (an address; 0: not yet)
    b,      \* the list the caller constructed
    c,      \* the result of copy.deepcopy(a) or of a + x
    last,   \* the last call and how it ended
    out,    \* what dumps returned since the last edit
    steps   \* the number of edits made

vars == <<src, heap, a, b, c, last, out, steps>>

\* bounds of the model
MaxSteps == 2
MaxDumps == 2
MaxIdx == 2
MaxText == 5

Idx == -2..MaxIdx

\* the characters texts are made of
Alphabet == {"a", " ", "\n", ";", "{", "}", "#", "="}

\* the texts the edited trees are parsed from: a block whose body is only
\* whitespace, and a block with a directive and a comment
EditTexts ==
    { <<"a", " ", "{", "\n", "}">>,
      <<"a", " ", "{", "\n", " ", "b", " ", "c", ";", "\n", "}", "\n">> }

\* the list the caller constructs: a directive
Template == <<Str(<<"k">>), Str(<<"v">>)>>

\* the values the caller passes to insert, append, extend and __setitem__
Inputs ==
    { [x |-> Str(<<"v">>), so |-> FALSE],
      [x |-> Str(<<" ">>), so |-> FALSE],
      [x |-> None, so |-> FALSE],
      [x |-> Num(5), so |-> FALSE],
      [x |-> Lst(<<Str(<<"r">>), Str(<<"s">>), Str(<<"t">>)>>), so |-> TRUE],
      [x |-> Lst(<<Str(<<"r">>), Str(<<"s">>)>>), so |-> TRUE],
      [x |-> Ref(b), so |-> FALSE] }

Trees == {"a", "b", "c"}
Root(t) == CASE t = "a" -> a [] t = "b" -> b [] t = "c" -> c

\* the UnspacedList nodes of the tree under n: n and the nested ones
RECURSIVE Reach(_, _)
Reach(h, n) ==
    {n} \cup UNION {Reach(h, h[n].items[j].r) :
                       j \in {k \in 1..Len(h[n].items) : IsRef(h[n].items[k])}}

Call(op, t, n, i, x, so, err) ==
    [op |-> op, tree |-> t, node |-> n, i |-> i, x |-> x, so |-> so, err |-> err]

NoCall == Call("none", "a", 0, 0, None, FALSE, "ok")

InitParse ==
    /\ src = <<>>
    /\ heap = <<>>
    /\ a = 0 /\ b = 0 /\ c = 0
    /\ last = NoCall
    /\ out = <<>>
    /\ steps = 0

Init ==
    /\ src \in EditTexts
    /\ heap = <<>>
    /\ a = 0 /\ b = 0 /\ c = 0
    /\ last = NoCall
    /\ out = <<>>
    /\ steps = 0

\* the caller writes the text, one character at a time
TypeChar ==
    /\ a = 0
    /\ last.op = "none"
    /\ Len(src) < MaxText
    /\ \E ch \in Alphabet : src' = Append(src, ch)
    /\ UNCHANGED <<heap, a, b, c, last, out, steps>>

\* a = loads(src)
Loads ==
    /\ a = 0
    /\ last.op = "none"
    /\ \E tree \in {as_list(src)} :
          IF tree.ok
          THEN \E u \in {loads(heap, src)} :
                  /\ heap' = u.h
                  /\ a' = u.a
                  /\ last' = Call("loads", "a", u.a, 0, None, FALSE, "ok")
          ELSE /\ UNCHANGED <<heap, a>>
               /\ last' = Call("loads", "a", 0, 0, None, FALSE, "ParseException")
    /\ UNCHANGED <<src, b, c, out, steps>>

\* b = UnspacedList(Template)
Construct ==
    /\ a # 0 /\ b = 0
    /\ \E lit \in {BuildItems(heap, Template, <<>>)} :
       \E u \in {UnspacedList(lit.h, lit.items, FALSE)} :
          /\ heap' = u.h
          /\ b' = u.a
          /\ last' = Call("UnspacedList", "b", u.a, 0, None, FALSE, "ok")
    /\ UNCHANGED <<src, a, c, out, steps>>

\* the edits start once both trees exist, and at most MaxSteps are made
CanEdit == a # 0 /\ b # 0 /\ steps < MaxSteps

\* the caller never builds a list that contains itself
Acyclic(n, x) == IsRef(x) => n \notin Reach(heap, x.r)

Edited(op, t, n, i, inp, res) ==
    /\ heap' = res.h
    /\ last' = Call(op, t, n, i, inp.x, inp.so, res.err)
    /\ steps' = steps + 1
    /\ out' = <<>>
    /\ UNCHANGED <<src, a, b, c>>

\* n.insert(i, x, spaceout)
Insert ==
    /\ CanEdit
    /\ \E t \in {r \in Trees : Root(r) # 0} : \E n \in Reach(heap, Root(t)) :
       \E i \in Idx : \E inp \in Inputs :
          /\ Acyclic(n, inp.x)
          /\ \E arg \in {Build(heap, inp.x)} :
             \E res \in {insert(arg.h, n, i, arg.v, inp.so)} :
                Edited("insert", t, n, i, inp, res)

\* n.append(x, spaceout)
AppendItem ==
    /\ CanEdit
    /\ \E t \in {r \in Trees : Root(r) # 0} : \E n \in Reach(heap, Root(t)) :
       \E inp \in Inputs :
          /\ Acyclic(n, inp.x)
          /\ \E arg \in {Build(heap, inp.x)} :
             \E res \in {append(arg.h, n, arg.v, inp.so)} :
                Edited("append", t, n, 0, inp, res)

\* n.extend(x, spaceout)
Extend ==
    /\ CanEdit
    /\ \E t \in {r \in Trees : Root(r) # 0} : \E n \in Reach(heap, Root(t)) :
       \E inp \in Inputs :
          /\ Acyclic(n, inp.x)
          /\ \E arg \in {Build(heap, inp.x)} :
             \E res \in {extend(arg.h, n, arg.v, inp.so)} :
                Edited("extend", t, n, 0, inp, res)

\* n[i] = x
SetItem ==
    /\ CanEdit
    /\ \E t \in {r \in Trees : Root(r) # 0} : \E n \in Reach(heap, Root(t)) :
       \E i \in Idx : \E inp \in {p \in Inputs : ~p.so} :
          /\ Acyclic(n, inp.x)
          /\ \E arg \in {Build(heap, inp.x)} :
             \E res \in {__setitem__(arg.h, n, i, arg.v)} :
                Edited("setitem", t, n, i, inp, res)

\* del n[i]
DelItem ==
    /\ CanEdit
    /\ \E t \in {r \in Trees : Root(r) # 0} : \E n \in Reach(heap, Root(t)) :
       \E i \in Idx :
          \E res \in {__delitem__(heap, n, i)} :
             Edited("delitem", t, n, i, [x |-> None, so |-> FALSE], res)

\* c = copy.deepcopy(a)
DeepCopy ==
    /\ CanEdit /\ c = 0
    /\ \E d \in {deepcopy(heap, <<>>, Ref(a))} :
          /\ heap' = d.h
          /\ c' = d.v.r
          /\ last' = Call("deepcopy", "a", a, 0, None, FALSE, "ok")
    /\ steps' = steps + 1
    /\ out' = <<>>
    /\ UNCHANGED <<src, a, b>>

\* c = a + b
Add ==
    /\ CanEdit /\ c = 0
    /\ \E d \in {__add__(heap, a, Ref(b))} :
          /\ heap' = d.h
          /\ c' = d.a
          /\ last' = Call("add", "a", a, 0, Ref(b), FALSE, d.err)
    /\ steps' = steps + 1
    /\ out' = <<>>
    /\ UNCHANGED <<src, a, b>>

\* dumps(t): the lists the dumper made are garbage when it returns
Dumps ==
    /\ Len(out) < MaxDumps
    /\ \E t \in {r \in Trees : Root(r) # 0} :
          /\ IF out = <<>> THEN TRUE ELSE out[1].tree = t
          /\ \E d \in {dumps(heap, Root(t))} :
                /\ heap' = SubSeq(d.h, 1, Len(heap))
                /\ out' = Append(out, [tree |-> t, err |-> d.err, text |-> d.out])
                /\ last' = Call("dumps", t, Root(t), 0, None, FALSE, d.err)
    /\ UNCHANGED <<src, a, b, c, steps>>

NextParse == TypeChar \/ Loads \/ Dumps

Next ==
    \/ Loads
    \/ Construct
    \/ Insert
    \/ AppendItem
    \/ Extend
    \/ SetItem
    \/ DelItem
    \/ DeepCopy
    \/ Add
    \/ Dumps

\* loads and dumps on every text up to MaxText characters
SpecParse == InitParse /\ [][NextParse]_vars

\* the edited trees
Spec == Init /\ [][Next]_vars


(***************************************************************************)
(* What the properties speak of                                            *)
(***************************************************************************)
BoundTrees == {t \in Trees : Root(t) # 0}
EditOps == {"insert", "append", "extend", "setitem", "delitem"}

\* the step is an edit (the one last' describes)
IsEdit == steps' = steps + 1 /\ last'.op \in EditOps

items_of(h, n) == h[n].items
spaced_of(h, n) == h[h[n].spaced].items

\* both views of the tree under n, at every nesting level
RECURSIVE FullView(_, _)
FullView(h, n) ==
    [logical |-> [j \in 1..Len(h[n].items) |->
                     IF IsRef(h[n].items[j]) THEN FullView(h, h[n].items[j].r)
                     ELSE h[n].items[j]],
     spaced |-> Deref(h, Ref(h[n].spaced))]

SpaceyCount(xs) == Cardinality({j \in 1..Len(xs) : spacey(xs[j])})

\* the text of a str token list joined by single spaces
RECURSIVE join_spaces(_)
join_spaces(xs) ==
    IF xs = <<>> THEN <<>>
    ELSE IF Len(xs) = 1 THEN xs[1].s
    ELSE xs[1].s \o <<" ">> \o join_spaces(Tail(xs))

(***************************************************************************)
(* C1: round-trip identity: dumps(loads(T)) is T, character for character, *)
(* for every text T that parses, when the tree is not edited in between.   *)
(***************************************************************************)
RoundTrip ==
    \A k \in 1..Len(out) :
        (out[k].tree = "a" /\ steps = 0)
            => (out[k].err = "ok" /\ out[k].text = src)

(***************************************************************************)
(* C2: at every nesting level, the length of the logical view plus the     *)
(* number of whitespace-only leaves elided at that level is the length of  *)
(* the formatted view.                                                     *)
(***************************************************************************)
ElidedLeaves(h, n) == SpaceyCount(spaced_of(h, n)) - SpaceyCount(items_of(h, n))

Isomorphism ==
    \A t \in BoundTrees : \A n \in Reach(heap, Root(t)) :
        Len(items_of(heap, n)) + ElidedLeaves(heap, n) = Len(spaced_of(heap, n))

(***************************************************************************)
(* C3: no node is shared between two trees: an edit made through one tree, *)
(* at any depth, leaves both views of every other tree unchanged (also the *)
(* operand x that was passed to an earlier edit, and the operands of +).   *)
(***************************************************************************)
NoSharing ==
    [][IsEdit =>
          \A t \in BoundTrees \ {last'.tree} :
              FullView(heap', Root(t)) = FullView(heap, Root(t))]_vars

(***************************************************************************)
(* C4: failure atomicity: when insert, __setitem__ or __delitem__ raises,  *)
(* neither view of any tree has changed.                                   *)
(***************************************************************************)
FailureAtomic ==
    [][(IsEdit /\ last'.op \in {"insert", "setitem", "delitem"} /\ last'.err # "ok") =>
          \A t \in BoundTrees :
              FullView(heap', Root(t)) = FullView(heap, Root(t))]_vars

(***************************************************************************)
(* C5: index translation: __setitem__ and __delitem__ at 0 <= i < len and  *)
(* insert at 0 <= i <= len succeed, and act on the formatted view at the   *)
(* position of the counterpart of logical element i, which is i plus the   *)
(* number of elided whitespace before it: that element is replaced, is     *)
(* removed, or follows the inserted one.                                   *)
(***************************************************************************)
\* what UnspacedList.__init__ elides from a formatted list xs: a
\* whitespace-only leaf with no "#" before it, and a non-empty sublist all
\* of whose elements are elided
RECURSIVE ElidedAt(_, _)
WhitespaceOnly(v) ==
    IsLst(v) /\ v.l # <<>> /\ \A j \in 1..Len(v.l) : ElidedAt(v.l, j)

ElidedAt(xs, j) ==
    IF IsLst(xs[j]) THEN WhitespaceOnly(xs[j])
    ELSE spacey(xs[j]) /\ \A r \in 1..(j - 1) : ~(IsStr(xs[r]) /\ xs[r].s = <<"#">>)

\* the position (1-based) in the formatted list xs of the counterpart of
\* logical element i (0-based): the (i+1)-th element that is not elided, or
\* the end when there are only i of them
Counterpart(xs, i) ==
    LET at == {q \in 1..Len(xs) :
                  /\ ~ElidedAt(xs, q)
                  /\ Cardinality({r \in 1..(q - 1) : ~ElidedAt(xs, r)}) = i}
    IN  IF at = {} THEN Len(xs) + 1 ELSE Min(at)

Without(xs, q) == SubSeq(xs, 1, q - 1) \o SubSeq(xs, q + 1, Len(xs))

IndexTranslation ==
    [][(/\ IsEdit
        /\ last'.op \in {"insert", "setitem", "delitem"}
        /\ last'.i >= 0
        /\ last'.i <= Len(items_of(heap, last'.node))
        /\ last'.op # "insert" => last'.i < Len(items_of(heap, last'.node))) =>
          LET n == last'.node
              old == Deref(heap, Ref(heap[n].spaced)).l
              new == Deref(heap', Ref(heap'[n].spaced)).l
              q == Counterpart(old, last'.i)
          IN  /\ last'.err = "ok"
              /\ last'.op = "insert" => Without(new, q) = old
              /\ last'.op = "delitem" => new = Without(old, q)
              /\ last'.op = "setitem" =>
                    Len(new) = Len(old) /\ Without(new, q) = Without(old, q)]_vars

(***************************************************************************)
(* C6: serialization is total: dumps never fails on a well-formed tree: a  *)
(* document of comments, directives (also with the value absent, None, or  *)
(* with a key only) and blocks (also with an empty body).                  *)
(***************************************************************************)
IsKey(v) == IsStr(v) /\ v.s # <<>> /\ \A j \in 1..Len(v.s) : v.s[j] \in KeyChars
IsGap(v) == IsStr(v) /\ v.s # <<>> /\ spacey(v)
IsValue(v) == IsNone(v) \/ (IsStr(v) /\ ~IsGap(v))

\* an item without its leading whitespace
Unindented(xs) == IF xs # <<>> /\ IsGap(xs[1]) THEN Tail(xs) ELSE xs

IsComment(xs) == Len(xs) = 2 /\ xs[1] = Str(<<"#">>) /\ IsStr(xs[2])

IsDirective(xs) ==
    \/ Len(xs) = 1 /\ IsKey(xs[1])
    \/ Len(xs) = 2 /\ IsKey(xs[1]) /\ IsValue(xs[2])
    \/ Len(xs) = 3 /\ IsKey(xs[1]) /\ IsGap(xs[2]) /\ IsValue(xs[3])

RECURSIVE IsItem(_)
IsBlock(xs) ==
    /\ Len(xs) = 2
    /\ IsLst(xs[1]) /\ xs[1].l # <<>> /\ \A j \in 1..Len(xs[1].l) : IsStr(xs[1].l[j])
    /\ IsLst(xs[2]) /\ \A j \in 1..Len(xs[2].l) : IsItem(xs[2].l[j])

IsItem(v) ==
    \/ IsGap(v)
    \/ /\ IsLst(v)
       /\ LET xs == Unindented(v.l)
          IN  IsComment(xs) \/ IsDirective(xs) \/ IsBlock(xs)

\* the formatted view of the tree under n is a well-formed document
WellFormed(h, n) ==
    LET doc == Deref(h, Ref(h[n].spaced)).l
    IN  \A j \in 1..Len(doc) : IsItem(doc[j])

DumpsTotal ==
    \A k \in 1..Len(out) :
        WellFormed(heap, Root(out[k].tree)) => out[k].err = "ok"

(***************************************************************************)
(* C7: spaced construction: when a new directive, a list of str tokens (a  *)
(* key and one or more value tokens), is appended or inserted into a block *)
(* body of a parsed tree with spaceout=True, dumps of the tree is the text *)
(* of before with a newline, the tokens in order separated by single       *)
(* spaces, and ';' put inside the block's braces.                          *)
(***************************************************************************)
\* n is the body of a block of the tree under root
IsBody(h, root, n) ==
    \E p \in Reach(h, root) \ {root} :
        /\ Len(h[p].items) = 2
        /\ IsRef(h[p].items[1]) /\ h[p].items[2] = Ref(n)
        /\ \A j \in 1..Len(h[h[p].items[1].r].items) : IsStr(h[h[p].items[1].r].items[j])

SpacedConstruction ==
    [][(/\ IsEdit
        /\ steps = 0
        /\ last'.op \in {"append", "insert"}
        /\ last'.so /\ IsLst(last'.x) /\ Len(last'.x.l) >= 2
        /\ last'.err = "ok"
        /\ last'.tree = "a"
        /\ IsBody(heap, a, last'.node)) =>
          \E before \in {dumps(heap, a).out} : \E after \in {dumps(heap', a)} :
          \E line \in {<<"\n">> \o join_spaces(last'.x.l) \o <<";">>} :
              /\ after.err = "ok"
              /\ \E k \in 0..Len(before) :
                    /\ after.out = SubSeq(before, 1, k) \o line
                                      \o SubSeq(before, k + 1, Len(before))
                    /\ \E j \in 1..k : before[j] = "{"
                    /\ \E j \in (k + 1)..Len(before) : before[j] = "}"]_vars

(***************************************************************************)
(* C8: a malformed element (a number) given to insert, append or           *)
(* __setitem__ is rejected, and so is a leaf given to extend: the call     *)
(* raises, it is never accepted.  (Which error is raised is left open, so  *)
(* that every violation is a malformed element that was accepted.)         *)
(***************************************************************************)
MalformedRejected ==
    /\ (last.op \in {"insert", "append", "setitem"} /\ IsNum(last.x))
          => last.err # "ok"
    /\ (last.op = "extend" /\ (IsStr(last.x) \/ IsNone(last.x) \/ IsNum(last.x)))
          => last.err # "ok"

(***************************************************************************)
(* C9: idempotent re-serialization: dumps changes no list of the tree, in  *)
(* either view at any nesting level, and a second dumps of the unedited    *)
(* tree returns the text the first returned.                               *)
(***************************************************************************)
DumpsIsPure ==
    [][(last'.op = "dumps" /\ Len(out') = Len(out) + 1) =>
          /\ heap' = heap
          /\ out # <<>> => out'[Len(out')] = out[Len(out)]]_vars

\* a parsed block with an item in its body has been dumped twice
DumpedTwice ==
    /\ Len(out) = 2
    /\ out[2].err = "ok"
    /\ steps = 0
    /\ \E n \in Reach(heap, a) : IsBody(heap, a, n) /\ items_of(heap, n) # <<>>

(***************************************************************************)
(* C10: nested views stay linked: for every node p and every nested node n *)
(* at logical index i of p, the formatted view of n is the very list held  *)
(* in p's formatted view at the translated position of i.                  *)
(***************************************************************************)
NestedLinked ==
    \A t \in BoundTrees : \A p \in Reach(heap, Root(t)) :
        \A i \in 0..(Len(items_of(heap, p)) - 1) :
            IsRef(items_of(heap, p)[i + 1]) =>
                LET sb == _spaces_before(heap, p, i)
                IN  /\ sb.err = "ok"
                    /\ i + sb.n < Len(spaced_of(heap, p))
                    /\ spaced_of(heap, p)[i + sb.n + 1]
                          = Ref(heap[items_of(heap, p)[i + 1].r].spaced)

====
